---- MODULE Spec2Model ----
(***************************************************************************)
(* A model of the RAG pipeline of src/src.ts (class RAGImplementation).    *)
(*                                                                         *)
(* Each processQuery call is a process that moves from one await to the    *)
(* next; an action is the synchronous code that runs between two awaits    *)
(* (JavaScript runs it to completion, so no other call interleaves with    *)
(* it).  The three collaborators (chat provider, embedding provider,       *)
(* vector store) answer every request with a nondeterministic outcome.     *)
(*                                                                         *)
(* A source text is represented by the number of chunks the splitter       *)
(* makes of it (0 stands for an empty or whitespace-only text); chunk i    *)
(* stands for its own text.  An embedding vector is represented by the     *)
(* chunk it was computed from and its length.                              *)
(***************************************************************************)
EXTENDS Integers, Sequences, FiniteSets, TLC

(* ------------------------------ bounds -------------------------------- *)

\* The longest source text, in chunks.
MaxChunks == 21

\* Embedding vectors have a length in 1..MaxDim.
MaxDim == 2

\* The clock (Date.now()) reads 0..MaxClock.
MaxClock == 1

\* The number of processQuery calls made.
MaxCalls == 2

\* The longest text whose embedding requests are followed one by one.
MaxEmbedChunks == 3

\* The longest completion content followed character by character.
MaxTextLen == 3

\* The longest query followed character by character.
MaxQueryLen == 2

(* ------------------------ program constants --------------------------- *)

\* const batchSize = 10
batchSize == 10

\* search(..., { limit: 3 })
searchLimit == 3

\* error.status === 404: the status of the error the store answers the lookup
\* of a collection it does not have with.
NotFoundStatus == 404

\* The slots processQuery calls run in: calls in different slots may run at
\* the same time.
Calls == {1, 2}

\* The slots a caller that awaits each call before making the next uses.
Callers == {1}

Dims == 1..MaxDim

\* The source texts tried: empty, one chunk, one full batch, one full batch
\* and one more chunk, the longest text.
ChunkCounts == {0, 1, batchSize, batchSize + 1, MaxChunks}

\* The source texts tried while the prompts are updated.
ShortTexts == {0, 1}

\* Prompt templates a configuration or an update may carry.
Templates == {"T0", "T1"}

\* What the chat provider may answer: no usable content, or a text.
ChatContents == {"", "text"}

DefaultCollection == "default_collection"
DefaultFallback == "I could not find relevant information for your query."

NoError == "none"

Min(a, b) == IF a < b THEN a ELSE b

VARIABLES
    prompts,          \* this.prompts
    collectionName,   \* this.collectionName
    fallbackResponse, \* this.fallbackResponse
    colDim,           \* the store: vector size of the collection, 0 = no collection
    createdBy,        \* the store: the call that created the collection, 0 = none of them
    points,           \* the store: point id -> the point stored under it
    clock,            \* Date.now()
    started,          \* the number of processQuery calls made so far
    callNo,           \* per call: which of the calls made so far it is
    pc,               \* per call: the await the call is suspended at
    nChunks,          \* per call: documentTexts.length
    category,         \* per call: the value classifyQuery returned
    promiseAll,       \* per call: the Promise.all over the embedding requests
    embeds,           \* per call: the array Promise.all resolved to
    pts,              \* per call: the points array
    bi,               \* per call: the loop variable i of the upsert loop
    hits,             \* per call: searchResults.length, -1 before the search returns
    response,         \* per call: the value getBotResponse returned
    thrown,           \* per call: the error a stage threw
    raised,           \* per call: the error processQuery rejected with
    usedPrompts,      \* per call: the templates its two prompts were built from
    startPrompts,     \* per call: this.prompts when the call started
    log,              \* per call: the collaborator requests and acknowledgements
    construction,     \* new RAGImplementation(config): the argument and the outcome
    strings           \* the strings of a call, character by character

vars == <<prompts, collectionName, fallbackResponse, colDim, createdBy, points, clock,
          started, callNo, pc, nChunks, category, embeds, pts, bi, hits, response,
          thrown, raised,
          usedPrompts, startPrompts, log, promiseAll, construction, strings>>

config == <<collectionName, fallbackResponse, construction>>
store == <<colDim, createdBy, points>>
callVars == <<started, callNo, pc, nChunks, category, embeds, pts, bi, hits, response,
              thrown, raised,
              usedPrompts, startPrompts, log, promiseAll>>

(* --------------------------- pure functions --------------------------- *)

\* completion.choices[0]?.message?.content || 'general'
ClassificationLabel(content) == IF content = "" THEN "general" ELSE content

\* A faulty return: the content of the completion, whatever it is.
RawContent(content, fallback) == content

\* completion.choices[0]?.message?.content || this.fallbackResponse
BotAnswer(content, fallback) == IF content = "" THEN fallback ELSE content

\* The templates a prompt record holds.
PromptKeys == {"classification", "response"}

\* Partial<typeof this.prompts>: any subset of the two fields.
PartialPrompts == UNION {[ks -> Templates] : ks \in SUBSET PromptKeys}

\* A faulty update: the templates not given fall back to the default.
MergePromptsReset(old, new) ==
    [k \in DOMAIN old \cup DOMAIN new |-> IF k \in DOMAIN new THEN new[k] ELSE "T0"]

\* { ...this.prompts, ...newPrompts }
MergePrompts(old, new) ==
    [k \in DOMAIN old \cup DOMAIN new |-> IF k \in DOMAIN new THEN new[k] ELSE old[k]]

\* A faulty catch: it throws a new error in place of the one caught.
RethrowOther(e) == "Error"

\* catch (error) { console.error(...); throw error; }
Rethrow(e) == e

\* A faulty id: the chunk ordinal is left out.
PointIdOfClock(now, i) == now

\* id: Date.now() + i
PointId(now, i) == now + i

\* The point the map callback makes of chunk i and its vector when the clock
\* reads now.
Point(i, vector, now) ==
    [id |-> PointId(now, i), vector |-> vector, chunkIndex |-> i, text |-> i]

\* documentTexts.map((text, i) => ({ id, vector, payload })), where ts[i + 1]
\* is the clock reading taken for chunk i.
BuildPoints(n, e, ts) == [k \in 1..n |-> Point(k - 1, e[k], ts[k])]

\* A faulty slice: it takes one point too many.
BatchOneMore(p, i) == SubSeq(p, i + 1, Min(i + batchSize + 1, Len(p)))

\* points.slice(i, i + batchSize)
Batch(p, i) == SubSeq(p, i + 1, Min(i + batchSize, Len(p)))

\* The vector lengths an embedding provider may give the n chunks of a text:
\* all chunks but possibly the last get the same length.
EmbedLens(n) ==
    {[k \in 1..n |-> IF k < n THEN d ELSE e] : d \in Dims, e \in Dims}

\* embeds: the vector of chunk k is the embedding of chunk k.
Embeddings(n, lens) == [k \in 1..n |-> [of |-> k - 1, len |-> lens[k]]]

\* The clock readings the map over n chunks may take, starting at now: the
\* clock does not go back, and it advances at most once while the map runs,
\* after the first chunk or before the last.
Readings(n, now) ==
    {[k \in 1..n |-> now]} \cup
    {[k \in 1..n |-> IF k < j THEN now ELSE t] :
        j \in {2, n} \ {1}, t \in (now + 1)..MaxClock}

(* ------------------------------ the store ----------------------------- *)

\* The store takes a batch only if every vector has the collection's size.
StoreAccepts(dim, batch) ==
    dim # 0 /\ \A k \in 1..Len(batch) : batch[k].vector.len = dim

\* upsert: a point replaces the point stored under the same id; of two points
\* of one batch with the same id the later one stays.
StoreUpsert(stored, batch, c) ==
    LET ids == {batch[k].id : k \in 1..Len(batch)}
        last(id) == CHOOSE k \in 1..Len(batch) :
                        /\ batch[k].id = id
                        /\ \A j \in (k + 1)..Len(batch) : batch[j].id # id
    IN  [id \in DOMAIN stored \cup ids |->
            IF id \in ids
            THEN [call |-> c, chunkIndex |-> batch[last(id)].chunkIndex,
                  len |-> batch[last(id)].vector.len]
            ELSE stored[id]]

(* ----------------------------- the strings --------------------------- *)

\* A string is the sequence of its characters; a placeholder of a template,
\* "{context}" or "{query}", is taken as one character.

\* The strings of at most n characters of the set A.
RECURSIVE Strings(_, _)
Strings(A, n) ==
    IF n = 0 THEN {<<>>}
    ELSE LET shorter == Strings(A, n - 1)
         IN  shorter \cup {Append(t, a) : t \in shorter, a \in A}

\* The characters ` and ', written by their names.
Grave == "grave"
Apostrophe == "apostrophe"

\* 'general'
General == <<"g", "e", "n", "e", "r", "a", "l">>

\* completion.choices[0]?.message?.content || 'general', on the characters
LabelText(content) == IF content = <<>> THEN General ELSE content

\* s.indexOf(c): the first place of character c in s, from 1, and 0 if none
IndexOf(s, c) ==
    IF \E k \in 1..Len(s) : s[k] = c
    THEN CHOOSE k \in 1..Len(s) : s[k] = c /\ \A j \in 1..(k - 1) : s[j] # c
    ELSE 0

\* The replacement text of String.prototype.replace for a string pattern:
\* in r, $$ stands for $, $& for the matched text, $` for the text before the
\* match and $' for the text after it; any other $ stands for itself.
RECURSIVE GetSubstitution(_, _, _, _)
GetSubstitution(r, matched, before, after) ==
    IF r = <<>> THEN <<>>
    ELSE IF Head(r) = "$" /\ Len(r) >= 2 /\ r[2] \in {"$", "&", Grave, Apostrophe}
    THEN (CASE r[2] = "$" -> <<"$">>
            [] r[2] = "&" -> matched
            [] r[2] = Grave -> before
            [] r[2] = Apostrophe -> after)
         \o GetSubstitution(Tail(Tail(r)), matched, before, after)
    ELSE <<Head(r)>> \o GetSubstitution(Tail(r), matched, before, after)

\* s.replace(c, r) for a string pattern c: the first c of s is replaced.
Replace(s, c, r) ==
    LET k == IndexOf(s, c)
        before == SubSeq(s, 1, k - 1)
        after == SubSeq(s, k + 1, Len(s))
    IN  IF k = 0 THEN s
        ELSE before \o GetSubstitution(r, <<c>>, before, after) \o after

\* texts.join(" ")
RECURSIVE Join(_)
Join(texts) ==
    IF texts = <<>> THEN <<>>
    ELSE IF Len(texts) = 1 THEN texts[1]
    ELSE texts[1] \o <<" ">> \o Join(Tail(texts))

\* searchResults.map(hit => hit.payload?.text || '').join(" ")
Context(texts) == Join(texts)

\* this.prompts.response.replace('{context}', context).replace('{query}', userInput)
ResponsePrompt(template, context, query) ==
    Replace(Replace(template, "{context}", context), "{query}", query)

\* The contents of a classification completion: blanks and letters.
LabelChars == {" ", "\n", "m", "x"}
Completions == Strings(LabelChars, MaxTextLen)

\* Response templates with each placeholder once, in either order.
ResponseTemplates ==
    {<<"<", "{context}", "|", "{query}", ">">>,
     <<"<", "{query}", "|", "{context}", ">">>}

\* The texts of the hits of a search: a missing text reads as ''.
HitTexts == {<<>>, <<"a">>, <<"$", "&">>, <<"{query}">>}
SearchResults == UNION {[1..n -> HitTexts] : n \in 1..searchLimit}

\* The user's queries.
QueryChars == {"a", "$", "&", Grave, Apostrophe}
Queries == Strings(QueryChars, MaxQueryLen)

\* No string of a call is followed.
NoStrings ==
    [at |-> "none", content |-> <<>>, label |-> <<>>, template |-> <<>>,
     texts |-> <<>>, query |-> <<>>, prompt |-> <<>>]

(* --------------------------- the constructor -------------------------- *)

\* A field the configuration object does not have (undefined).
Absent == "<undefined>"

\* The values tried for a required field, for an optional field and for a
\* prompt template of the configuration.
KeyValues == {Absent, "", "key"}
OptionValues == {Absent, "", "custom"}
TemplateValues == {Absent, "", "T1"}

RequiredFields == {"googleApiKey", "qdrantUrl", "qdrantApiKey", "groqApiKey"}

\* RAGConfig, with prompts?.classification and prompts?.response flattened.
Configs ==
    [googleApiKey : KeyValues, qdrantUrl : KeyValues, qdrantApiKey : KeyValues,
     groqApiKey : KeyValues, collectionName : OptionValues,
     fallbackResponse : OptionValues, classification : TemplateValues,
     response : TemplateValues]

\* The configuration that gives the required fields only.
RequiredOnly ==
    [googleApiKey |-> "key", qdrantUrl |-> "key", qdrantApiKey |-> "key",
     groqApiKey |-> "key", collectionName |-> Absent, fallbackResponse |-> Absent,
     classification |-> Absent, response |-> Absent]

\* !v for a string or undefined v
Falsy(v) == v \in {Absent, ""}

\* v || d
OrElse(v, d) == IF Falsy(v) THEN d ELSE v

\* A faulty check: it forgets the chat credential.
RequiredMissingButGroq(cfg) ==
    Falsy(cfg.googleApiKey) \/ Falsy(cfg.qdrantUrl) \/ Falsy(cfg.qdrantApiKey)

\* !config.googleApiKey || !config.qdrantUrl || !config.qdrantApiKey ||
\* !config.groqApiKey
RequiredMissing(cfg) ==
    \/ Falsy(cfg.googleApiKey)
    \/ Falsy(cfg.qdrantUrl)
    \/ Falsy(cfg.qdrantApiKey)
    \/ Falsy(cfg.groqApiKey)

\* The clients the constructor makes, in the order it makes them.
Clients == <<"QdrantClient", "GoogleGenerativeAIEmbeddings", "Groq">>

\* new RAGImplementation(cfg) has not run yet.
NotConstructed(cfg) ==
    [config |-> cfg, at |-> "new", clients |-> <<>>, error |-> NoError]

\* The outcome of new RAGImplementation(cfg).
Constructed(cfg) ==
    IF RequiredMissing(cfg)
    THEN [config |-> cfg, at |-> "failed", clients |-> <<>>,
          error |-> "ConfigurationError"]
    ELSE [config |-> cfg, at |-> "constructed", clients |-> Clients,
          error |-> NoError]

(* ------------------------------ the state ----------------------------- *)

NoPrompts == [classification |-> "", response |-> ""]

\* The place of a value Promise.all has not received yet.
Pending == [of |-> -1, len |-> 0]

\* No Promise.all has been made: values is its array of results, order the
\* requests in the order they completed, rejected those that failed.
NoPromise == [values |-> <<>>, order |-> <<>>, rejected |-> {}]

\* The pipeline constructed with the optional fields of the configuration
\* left out, and a store that has no collection yet.
Init ==
    /\ prompts = [k \in PromptKeys |-> "T0"]
    /\ collectionName = DefaultCollection
    /\ fallbackResponse = DefaultFallback
    /\ colDim = 0
    /\ createdBy = 0
    /\ points = <<>>
    /\ clock = 0
    /\ started = 0
    /\ callNo = [c \in Calls |-> 0]
    /\ pc = [c \in Calls |-> "idle"]
    /\ nChunks = [c \in Calls |-> 0]
    /\ category = [c \in Calls |-> ""]
    /\ promiseAll = [c \in Calls |-> NoPromise]
    /\ embeds = [c \in Calls |-> <<>>]
    /\ pts = [c \in Calls |-> <<>>]
    /\ bi = [c \in Calls |-> 0]
    /\ hits = [c \in Calls |-> -1]
    /\ response = [c \in Calls |-> ""]
    /\ thrown = [c \in Calls |-> NoError]
    /\ raised = [c \in Calls |-> NoError]
    /\ usedPrompts = [c \in Calls |-> NoPrompts]
    /\ startPrompts = [c \in Calls |-> NoPrompts]
    /\ log = [c \in Calls |-> <<>>]
    /\ construction = Constructed(RequiredOnly)
    /\ strings = NoStrings

\* The constructor has not run: the fields of the object are not set.
InitConstruct ==
    /\ construction \in {NotConstructed(cfg) : cfg \in Configs}
    /\ strings = NoStrings
    /\ prompts = NoPrompts
    /\ collectionName = ""
    /\ fallbackResponse = ""
    /\ colDim = 0
    /\ createdBy = 0
    /\ points = <<>>
    /\ clock = 0
    /\ started = 0
    /\ callNo = [c \in Calls |-> 0]
    /\ pc = [c \in Calls |-> "idle"]
    /\ nChunks = [c \in Calls |-> 0]
    /\ category = [c \in Calls |-> ""]
    /\ promiseAll = [c \in Calls |-> NoPromise]
    /\ embeds = [c \in Calls |-> <<>>]
    /\ pts = [c \in Calls |-> <<>>]
    /\ bi = [c \in Calls |-> 0]
    /\ hits = [c \in Calls |-> -1]
    /\ response = [c \in Calls |-> ""]
    /\ thrown = [c \in Calls |-> NoError]
    /\ raised = [c \in Calls |-> NoError]
    /\ usedPrompts = [c \in Calls |-> NoPrompts]
    /\ startPrompts = [c \in Calls |-> NoPrompts]
    /\ log = [c \in Calls |-> <<>>]

(* ------------------------------ the steps ----------------------------- *)

\* new RAGImplementation(config): the check of the required fields, then the
\* clients, then the fields with their defaults.
Construct ==
    /\ construction.at = "new"
    /\ construction' = Constructed(construction.config)
    /\ IF construction'.at = "failed"
       THEN UNCHANGED <<prompts, collectionName, fallbackResponse>>
       ELSE LET cfg == construction.config
            IN  /\ collectionName' = OrElse(cfg.collectionName, DefaultCollection)
                /\ fallbackResponse' = OrElse(cfg.fallbackResponse, DefaultFallback)
                /\ prompts' = [classification |-> OrElse(cfg.classification, "T0"),
                               response |-> OrElse(cfg.response, "T0")]
    /\ UNCHANGED <<strings, store, clock, callVars>>

Logged(c, events) == log' = [log EXCEPT ![c] = @ \o events]

\* A stage of call c throws e: processQuery catches and rethrows it.
Fail(c, e) ==
    /\ pc' = [pc EXCEPT ![c] = "failed"]
    /\ thrown' = [thrown EXCEPT ![c] = e]
    /\ raised' = [raised EXCEPT ![c] = Rethrow(e)]

\* No processQuery call is running in slot c.
Free(c) == pc[c] \in {"idle", "done", "failed"}

\* processQuery(contextText, query) is called with a text of n chunks:
\* classifyQuery builds its prompt and sends it to the chat provider.
Start(c, n) ==
    /\ construction.at = "constructed"
    /\ Free(c)
    /\ started < MaxCalls
    /\ started' = started + 1
    /\ callNo' = [callNo EXCEPT ![c] = started + 1]
    /\ nChunks' = [nChunks EXCEPT ![c] = n]
    /\ startPrompts' = [startPrompts EXCEPT ![c] = prompts]
    /\ usedPrompts' = [usedPrompts EXCEPT
                          ![c] = [classification |-> prompts.classification,
                                  response |-> ""]]
    /\ pc' = [pc EXCEPT ![c] = "classify"]
    /\ log' = [log EXCEPT ![c] = <<"chat.classify">>]
    /\ category' = [category EXCEPT ![c] = ""]
    /\ promiseAll' = [promiseAll EXCEPT ![c] = NoPromise]
    /\ embeds' = [embeds EXCEPT ![c] = <<>>]
    /\ pts' = [pts EXCEPT ![c] = <<>>]
    /\ bi' = [bi EXCEPT ![c] = 0]
    /\ hits' = [hits EXCEPT ![c] = -1]
    /\ response' = [response EXCEPT ![c] = ""]
    /\ thrown' = [thrown EXCEPT ![c] = NoError]
    /\ raised' = [raised EXCEPT ![c] = NoError]
    /\ UNCHANGED <<prompts, config, strings, store, clock>>

\* The chat provider fails the classification request.
ClassifyFail(c) ==
    /\ pc[c] = "classify"
    /\ Fail(c, "ChatProviderError")
    /\ UNCHANGED <<prompts, config, strings, store, clock, started, callNo, nChunks, category,
                   embeds, pts, bi, hits, response, usedPrompts, startPrompts, log,
                   promiseAll>>

\* A faulty guard: the empty text is not recognised.
EmptyTextNever(n) == n < 0

\* !text?.trim(), for a text the splitter makes n chunks of
EmptyText(n) == n = 0

\* The chat provider answers the classification request; createVectorStore
\* then rejects an empty text, or splits the text and sends one embedding
\* request per chunk.
ClassifyOk(c, content) ==
    /\ pc[c] = "classify"
    /\ category' = [category EXCEPT ![c] = ClassificationLabel(content)]
    /\ IF EmptyText(nChunks[c])
       THEN /\ Fail(c, "EmptyInputError")
            /\ UNCHANGED log
       ELSE /\ pc' = [pc EXCEPT ![c] = "embed"]
            /\ Logged(c, [k \in 1..nChunks[c] |-> "embed"])
            /\ UNCHANGED <<thrown, raised>>
    /\ UNCHANGED <<prompts, config, strings, store, clock, started, callNo, nChunks, embeds, pts, bi,
                   hits, response, usedPrompts, startPrompts, promiseAll>>

\* The embedding requests of call c that have not completed. (The requests
\* are followed one by one only in SpecEmbed; the other specifications take
\* the whole Promise.all in one step, EmbedOk or EmbedFail.)
Waiting(c) ==
    {k \in 0..(nChunks[c] - 1) :
        \A j \in 1..Len(promiseAll[c].order) : promiseAll[c].order[j] # k}

\* The array of results of a Promise.all over n promises, none settled.
NoValues(n) == [k \in 1..n |-> Pending]

\* values of the Promise.all of call c
Values(c) ==
    IF promiseAll[c].values = <<>> THEN NoValues(nChunks[c])
    ELSE promiseAll[c].values

\* A faulty Promise.all: a result is stored at the place of its arrival.
PutInArrivalOrder(values, k, v, arrived) == [values EXCEPT ![arrived + 1] = v]

\* Promise.all stores the result of its k-th promise (from 0) at index k,
\* however many results arrived before it.
PromiseAllPut(values, k, v, arrived) == [values EXCEPT ![k + 1] = v]

\* A faulty wait (Promise.allSettled): a rejection does not reject the whole.
RejectsNever(rejected) == FALSE

\* Promise.all rejects as soon as one of its promises rejects.
PromiseAllRejects(rejected) == rejected # {}

\* Promise.all has all its results: createVectorStore goes on with
\* ensureCollection(embeds[0].length), which asks the store for the collection.
EmbedsReady(c, values) ==
    /\ embeds' = [embeds EXCEPT ![c] = values]
    /\ pc' = [pc EXCEPT ![c] = "getCollection"]
    /\ Logged(c, <<"getCollection">>)

\* The embedding request of chunk k is answered with a vector of length d.
EmbedResolve(c, k, d) ==
    /\ pc[c] = "embed"
    /\ k \in Waiting(c)
    /\ LET values == PromiseAllPut(Values(c), k, [of |-> k, len |-> d],
                                   Len(promiseAll[c].order))
           order == Append(promiseAll[c].order, k)
       IN  /\ promiseAll' = [promiseAll EXCEPT ![c].values = values,
                                               ![c].order = order]
           /\ IF Len(order) = nChunks[c]
              THEN EmbedsReady(c, values)
              ELSE UNCHANGED <<embeds, pc, log>>
    /\ UNCHANGED <<prompts, config, strings, store, clock, started, callNo, nChunks, category,
                   pts, bi, hits, response, thrown, raised, usedPrompts, startPrompts>>

\* The embedding request of chunk k fails: Promise.all rejects, and the await
\* in createVectorStore throws.
EmbedReject(c, k) ==
    /\ pc[c] = "embed"
    /\ k \in Waiting(c)
    /\ LET rejected == promiseAll[c].rejected \cup {k}
           order == Append(promiseAll[c].order, k)
       IN  /\ promiseAll' = [promiseAll EXCEPT ![c].values = Values(c),
                                               ![c].order = order,
                                               ![c].rejected = rejected]
           /\ IF PromiseAllRejects(rejected)
              THEN /\ Fail(c, "EmbeddingError")
                   /\ UNCHANGED <<embeds, log>>
              ELSE /\ IF Len(order) = nChunks[c]
                      THEN EmbedsReady(c, Values(c))
                      ELSE UNCHANGED <<embeds, pc, log>>
                   /\ UNCHANGED <<thrown, raised>>
    /\ UNCHANGED <<prompts, config, strings, store, clock, started, callNo, nChunks, category,
                   pts, bi, hits, response, usedPrompts, startPrompts>>

\* An embedding request completes after Promise.all rejected: nobody waits
\* for it any more.
EmbedLate(c, k, ok) ==
    /\ pc[c] = "failed"
    /\ promiseAll[c].rejected # {}
    /\ k \in Waiting(c)
    /\ promiseAll' = [promiseAll EXCEPT
                          ![c].order = Append(@, k),
                          ![c].rejected = IF ok THEN @ ELSE @ \cup {k}]
    /\ UNCHANGED <<prompts, config, strings, store, clock, started, callNo, pc, nChunks,
                   category, embeds, pts, bi, hits, response, thrown, raised,
                   usedPrompts, startPrompts, log>>

\* One of the embedding requests fails: Promise.all rejects.
EmbedFail(c) ==
    /\ pc[c] = "embed"
    /\ Fail(c, "EmbeddingError")
    /\ UNCHANGED <<prompts, config, strings, store, clock, started, callNo, nChunks, category,
                   embeds, pts, bi, hits, response, usedPrompts, startPrompts, log,
                   promiseAll>>

\* All embedding requests are answered; ensureCollection(embeds[0].length)
\* asks the store for the collection.
EmbedOk(c, lens) ==
    /\ pc[c] = "embed"
    /\ embeds' = [embeds EXCEPT ![c] = Embeddings(nChunks[c], lens)]
    /\ pc' = [pc EXCEPT ![c] = "getCollection"]
    /\ Logged(c, <<"getCollection">>)
    /\ UNCHANGED <<prompts, config, strings, store, clock, started, callNo, nChunks, category, pts, bi,
                   hits, response, thrown, raised, usedPrompts, startPrompts,
                   promiseAll>>

\* vectorSize of ensureCollection(embeds[0].length)
VectorSize(c) == embeds[c][1].len

\* A faulty size check: only vectors longer than the collection's are refused.
SizeTooLarge(dim, vectorSize) == dim < vectorSize

\* collection.config.params.vectors.size !== vectorSize
SizeMismatch(dim, vectorSize) == dim # vectorSize

\* After ensureCollection: the points are built, with the clock readings ts,
\* and the first batch is sent.
IndexPoints(c, ts) ==
    /\ pts' = [pts EXCEPT ![c] = BuildPoints(nChunks[c], embeds[c], ts)]
    /\ clock' = ts[nChunks[c]]
    /\ bi' = [bi EXCEPT ![c] = 0]
    /\ pc' = [pc EXCEPT ![c] = "upsert"]

\* getCollection finds the collection: a size mismatch is thrown (and rethrown
\* by the catch, as it has no status 404); otherwise indexing goes on.
GetCollectionFound(c, ts) ==
    /\ pc[c] = "getCollection"
    /\ colDim # 0
    /\ IF SizeMismatch(colDim, VectorSize(c))
       THEN /\ Fail(c, "DimensionMismatchError")
            /\ UNCHANGED <<clock, pts, bi, log>>
       ELSE /\ IndexPoints(c, ts)
            /\ Logged(c, <<"upsert">>)
            /\ UNCHANGED <<thrown, raised>>
    /\ UNCHANGED <<prompts, config, strings, store, started, callNo, nChunks, category, embeds, hits, response,
                   usedPrompts, startPrompts, promiseAll>>

\* The status of the error of a failed lookup that is not "not found": none
\* for a network failure, 401 for a refused credential, 500 for a server error.
ErrorStatuses == {0, 401, 500}

\* A faulty catch: it creates the collection on every error that has a status.
CatchCreatesOnStatus(status) == status # 0

\* error.status === 404
CatchCreates(status) == status = NotFoundStatus

\* getCollection answers 404: createCollection is sent.
GetCollectionNotFound(c) ==
    /\ pc[c] = "getCollection"
    /\ colDim = 0
    /\ CatchCreates(NotFoundStatus)
    /\ pc' = [pc EXCEPT ![c] = "createCollection"]
    /\ Logged(c, <<"createCollection">>)
    /\ UNCHANGED <<prompts, config, strings, store, clock, started, callNo, nChunks, category, embeds, pts,
                   bi, hits, response, thrown, raised, usedPrompts, startPrompts,
                   promiseAll>>

\* The lookup fails with an error of the given status, which is not "not
\* found": the catch of ensureCollection throws the error again.
GetCollectionError(c, status) ==
    /\ pc[c] = "getCollection"
    /\ IF CatchCreates(status)
       THEN /\ pc' = [pc EXCEPT ![c] = "createCollection"]
            /\ Logged(c, <<"createCollection">>)
            /\ UNCHANGED <<thrown, raised>>
       ELSE /\ Fail(c, "VectorStoreError")
            /\ UNCHANGED log
    /\ UNCHANGED <<prompts, config, strings, store, clock, started, callNo, nChunks, category,
                   embeds, pts, bi, hits, response, usedPrompts, startPrompts,
                   promiseAll>>

\* The store creates the collection (there is none yet); indexing goes on.
CreateCollectionOk(c, ts) ==
    /\ pc[c] = "createCollection"
    /\ colDim = 0
    /\ colDim' = VectorSize(c)
    /\ createdBy' = callNo[c]
    /\ IndexPoints(c, ts)
    /\ Logged(c, <<"upsert">>)
    /\ UNCHANGED <<prompts, config, strings, points, started, callNo, nChunks, category, embeds, hits, response,
                   thrown, raised, usedPrompts, startPrompts, promiseAll>>

\* createCollection fails: the store is unreachable, or the collection was
\* created in the meantime.
CreateCollectionFail(c) ==
    /\ pc[c] = "createCollection"
    /\ Fail(c, IF colDim # 0 THEN "ConflictError" ELSE "VectorStoreError")
    /\ UNCHANGED <<prompts, config, strings, store, clock, started, callNo, nChunks, category,
                   embeds, pts, bi, hits, response, usedPrompts, startPrompts, log,
                   promiseAll>>

\* A faulty loop condition: the loop stops one batch early.
LoopStopsEarly(i, n) == i + batchSize < n

\* for (...; i < points.length; ...)
LoopContinues(i, n) == i < n

\* A faulty step of the loop: the next batch starts with the last point of
\* this one.
NextBatchOverlapping(i) == i + batchSize - 1

\* i += batchSize
NextBatch(i) == i + batchSize

\* The points of the upsert request call c has in flight.
Request(c) == Batch(pts[c], bi[c])

\* The store acknowledges the batch at i (wait: true): the loop sends the next
\* batch, or getBotResponse starts and asks for the embedding of the query.
UpsertOk(c) ==
    /\ pc[c] = "upsert"
    /\ StoreAccepts(colDim, Request(c))
    /\ points' = StoreUpsert(points, Request(c), callNo[c])
    /\ bi' = [bi EXCEPT ![c] = NextBatch(@)]
    /\ IF LoopContinues(NextBatch(bi[c]), Len(pts[c]))
       THEN /\ Logged(c, <<"upsert.ack", "upsert">>)
            /\ UNCHANGED pc
       ELSE /\ Logged(c, <<"upsert.ack", "embed.query">>)
            /\ pc' = [pc EXCEPT ![c] = "embedQuery"]
    /\ UNCHANGED <<prompts, config, strings, colDim, createdBy, clock, started, callNo, nChunks, category, embeds, pts,
                   hits, response, thrown, raised, usedPrompts, startPrompts,
                   promiseAll>>

\* The store rejects the batch at i, or cannot be reached.
UpsertFail(c) ==
    /\ pc[c] = "upsert"
    /\ Fail(c, "VectorStoreError")
    /\ UNCHANGED <<prompts, config, strings, store, clock, started, callNo, nChunks, category,
                   embeds, pts, bi, hits, response, usedPrompts, startPrompts, log,
                   promiseAll>>

\* The embedding of the query fails.
EmbedQueryFail(c) ==
    /\ pc[c] = "embedQuery"
    /\ Fail(c, "EmbeddingError")
    /\ UNCHANGED <<prompts, config, strings, store, clock, started, callNo, nChunks, category,
                   embeds, pts, bi, hits, response, usedPrompts, startPrompts, log,
                   promiseAll>>

\* The query is embedded: the search is sent.
EmbedQueryOk(c) ==
    /\ pc[c] = "embedQuery"
    /\ pc' = [pc EXCEPT ![c] = "search"]
    /\ Logged(c, <<"search">>)
    /\ UNCHANGED <<prompts, config, strings, store, clock, started, callNo, nChunks, category, embeds, pts,
                   bi, hits, response, thrown, raised, usedPrompts, startPrompts,
                   promiseAll>>

\* The search fails.
SearchFail(c) ==
    /\ pc[c] = "search"
    /\ Fail(c, "VectorStoreError")
    /\ UNCHANGED <<prompts, config, strings, store, clock, started, callNo, nChunks, category,
                   embeds, pts, bi, hits, response, usedPrompts, startPrompts, log,
                   promiseAll>>

\* A faulty test: the empty result is not recognised.
NoResultsNever(n) == n < 0

\* if (!searchResults.length)
NoResults(n) == n = 0

\* The numbers of results a search may return.
HitCounts == {0, 1, searchLimit}

\* The search returns n results: with none the fallback is returned, and
\* otherwise the response prompt is built and sent to the chat provider.
SearchOk(c, n) ==
    /\ pc[c] = "search"
    /\ n <= Cardinality(DOMAIN points)
    /\ hits' = [hits EXCEPT ![c] = n]
    /\ IF NoResults(n)
       THEN /\ response' = [response EXCEPT ![c] = fallbackResponse]
            /\ pc' = [pc EXCEPT ![c] = "done"]
            /\ Logged(c, <<"search.return">>)
            /\ UNCHANGED usedPrompts
       ELSE /\ usedPrompts' = [usedPrompts EXCEPT ![c].response = prompts.response]
            /\ pc' = [pc EXCEPT ![c] = "answer"]
            /\ Logged(c, <<"search.return", "chat.answer">>)
            /\ UNCHANGED response
    /\ UNCHANGED <<prompts, config, strings, store, clock, started, callNo, nChunks, category,
                   embeds, pts, bi, thrown, raised, startPrompts, promiseAll>>

\* The chat provider fails the answer request.
AnswerFail(c) ==
    /\ pc[c] = "answer"
    /\ Fail(c, "ChatProviderError")
    /\ UNCHANGED <<prompts, config, strings, store, clock, started, callNo, nChunks, category,
                   embeds, pts, bi, hits, response, usedPrompts, startPrompts, log,
                   promiseAll>>

\* The chat provider answers: processQuery returns { response, category }.
AnswerOk(c, content) ==
    /\ pc[c] = "answer"
    /\ response' = [response EXCEPT ![c] = BotAnswer(content, fallbackResponse)]
    /\ pc' = [pc EXCEPT ![c] = "done"]
    /\ UNCHANGED <<prompts, config, strings, store, clock, started, callNo, nChunks, category,
                   embeds, pts, bi, hits, thrown, raised, usedPrompts, startPrompts, log,
                   promiseAll>>

\* updatePrompts(newPrompts)
UpdatePrompts(newPrompts) ==
    /\ prompts' = MergePrompts(prompts, newPrompts)
    /\ UNCHANGED <<config, strings, store, clock, callVars>>

\* Time passes.
Tick ==
    /\ clock < MaxClock
    /\ clock' = clock + 1
    /\ UNCHANGED <<prompts, config, strings, store, callVars>>

Next ==
    \/ \E c \in Callers, n \in ChunkCounts : Start(c, n)
    \/ \E c \in Callers : ClassifyFail(c)
    \/ \E c \in Callers, content \in ChatContents : ClassifyOk(c, content)
    \/ \E c \in Callers : EmbedFail(c)
    \/ \E c \in Callers : \E lens \in EmbedLens(nChunks[c]) : EmbedOk(c, lens)
    \/ \E c \in Callers : \E ts \in Readings(nChunks[c], clock) : GetCollectionFound(c, ts)
    \/ \E c \in Callers : GetCollectionNotFound(c)
    \/ \E c \in Callers, status \in ErrorStatuses : GetCollectionError(c, status)
    \/ \E c \in Callers : \E ts \in Readings(nChunks[c], clock) : CreateCollectionOk(c, ts)
    \/ \E c \in Callers : CreateCollectionFail(c)
    \/ \E c \in Callers : UpsertOk(c)
    \/ \E c \in Callers : UpsertFail(c)
    \/ \E c \in Callers : EmbedQueryFail(c)
    \/ \E c \in Callers : EmbedQueryOk(c)
    \/ \E c \in Callers : SearchFail(c)
    \/ \E c \in Callers, n \in HitCounts : SearchOk(c, n)
    \/ \E c \in Callers : AnswerFail(c)
    \/ \E c \in Callers, content \in ChatContents : AnswerOk(c, content)
    \/ Tick

\* The pipeline with the prompts it was constructed with.
Spec == Init /\ [][Next]_vars

\* The pipeline on short texts, with updatePrompts called at any moment.
NextPrompts ==
    \/ \E c \in Callers, n \in ShortTexts : Start(c, n)
    \/ \E c \in Callers : ClassifyFail(c)
    \/ \E c \in Callers, content \in ChatContents : ClassifyOk(c, content)
    \/ \E c \in Callers : EmbedFail(c)
    \/ \E c \in Callers : \E lens \in EmbedLens(nChunks[c]) : EmbedOk(c, lens)
    \/ \E c \in Callers : \E ts \in Readings(nChunks[c], clock) : GetCollectionFound(c, ts)
    \/ \E c \in Callers : GetCollectionNotFound(c)
    \/ \E c \in Callers, status \in ErrorStatuses : GetCollectionError(c, status)
    \/ \E c \in Callers : \E ts \in Readings(nChunks[c], clock) : CreateCollectionOk(c, ts)
    \/ \E c \in Callers : CreateCollectionFail(c)
    \/ \E c \in Callers : UpsertOk(c)
    \/ \E c \in Callers : UpsertFail(c)
    \/ \E c \in Callers : EmbedQueryFail(c)
    \/ \E c \in Callers : EmbedQueryOk(c)
    \/ \E c \in Callers : SearchFail(c)
    \/ \E c \in Callers, n \in HitCounts : SearchOk(c, n)
    \/ \E c \in Callers : AnswerFail(c)
    \/ \E c \in Callers, content \in ChatContents : AnswerOk(c, content)
    \/ \E newPrompts \in PartialPrompts : UpdatePrompts(newPrompts)
    \/ Tick

SpecPrompts == Init /\ [][NextPrompts]_vars

\* Two processQuery calls on short texts that run at the same time: the
\* steps of one interleave with the steps of the other at the awaits.
NextConc ==
    \/ \E c \in Calls, n \in ShortTexts : Start(c, n)
    \/ \E c \in Calls : ClassifyFail(c)
    \/ \E c \in Calls, content \in ChatContents : ClassifyOk(c, content)
    \/ \E c \in Calls : EmbedFail(c)
    \/ \E c \in Calls : \E lens \in EmbedLens(nChunks[c]) : EmbedOk(c, lens)
    \/ \E c \in Calls : \E ts \in Readings(nChunks[c], clock) : GetCollectionFound(c, ts)
    \/ \E c \in Calls : GetCollectionNotFound(c)
    \/ \E c \in Calls, status \in ErrorStatuses : GetCollectionError(c, status)
    \/ \E c \in Calls : \E ts \in Readings(nChunks[c], clock) : CreateCollectionOk(c, ts)
    \/ \E c \in Calls : CreateCollectionFail(c)
    \/ \E c \in Calls : UpsertOk(c)
    \/ \E c \in Calls : UpsertFail(c)
    \/ \E c \in Calls : EmbedQueryFail(c)
    \/ \E c \in Calls : EmbedQueryOk(c)
    \/ \E c \in Calls : SearchFail(c)
    \/ \E c \in Calls, n \in HitCounts : SearchOk(c, n)
    \/ \E c \in Calls : AnswerFail(c)
    \/ \E c \in Calls, content \in ChatContents : AnswerOk(c, content)
    \/ Tick

SpecConc == Init /\ [][NextConc]_vars

\* The pipeline on texts of a few chunks, with every embedding request
\* followed on its own: the requests complete in any order. The clock stands
\* still.
NextEmbed ==
    \/ \E c \in Callers, n \in 1..MaxEmbedChunks : Start(c, n)
    \/ \E c \in Callers : ClassifyFail(c)
    \/ \E c \in Callers, content \in ChatContents : ClassifyOk(c, content)
    \/ \E c \in Callers, k \in 0..(MaxEmbedChunks - 1), d \in Dims : EmbedResolve(c, k, d)
    \/ \E c \in Callers, k \in 0..(MaxEmbedChunks - 1) : EmbedReject(c, k)
    \/ \E c \in Callers, k \in 0..(MaxEmbedChunks - 1), ok \in BOOLEAN : EmbedLate(c, k, ok)
    \/ \E c \in Callers : GetCollectionFound(c, [k \in 1..nChunks[c] |-> clock])
    \/ \E c \in Callers : GetCollectionNotFound(c)
    \/ \E c \in Callers, status \in ErrorStatuses : GetCollectionError(c, status)
    \/ \E c \in Callers : CreateCollectionOk(c, [k \in 1..nChunks[c] |-> clock])
    \/ \E c \in Callers : CreateCollectionFail(c)
    \/ \E c \in Callers : UpsertOk(c)
    \/ \E c \in Callers : UpsertFail(c)
    \/ \E c \in Callers : EmbedQueryFail(c)
    \/ \E c \in Callers : EmbedQueryOk(c)
    \/ \E c \in Callers : SearchFail(c)
    \/ \E c \in Callers, n \in HitCounts : SearchOk(c, n)
    \/ \E c \in Callers : AnswerFail(c)
    \/ \E c \in Callers, content \in ChatContents : AnswerOk(c, content)

SpecEmbed == Init /\ [][NextEmbed]_vars

\* The constructor on every configuration, and the calls made on the
\* instances it returns, on a text of one chunk.
NextConstruct ==
    \/ Construct
    \/ \E c \in Callers : Start(c, 1)
    \/ \E c \in Callers : ClassifyFail(c)
    \/ \E c \in Callers, content \in ChatContents : ClassifyOk(c, content)
    \/ \E c \in Callers : EmbedFail(c)
    \/ \E c \in Callers : \E lens \in EmbedLens(nChunks[c]) : EmbedOk(c, lens)
    \/ \E c \in Callers : \E ts \in Readings(nChunks[c], clock) : GetCollectionFound(c, ts)
    \/ \E c \in Callers : GetCollectionNotFound(c)
    \/ \E c \in Callers, status \in ErrorStatuses : GetCollectionError(c, status)
    \/ \E c \in Callers : \E ts \in Readings(nChunks[c], clock) : CreateCollectionOk(c, ts)
    \/ \E c \in Callers : CreateCollectionFail(c)
    \/ \E c \in Callers : UpsertOk(c)
    \/ \E c \in Callers : UpsertFail(c)
    \/ \E c \in Callers : EmbedQueryFail(c)
    \/ \E c \in Callers : EmbedQueryOk(c)
    \/ \E c \in Callers : SearchFail(c)
    \/ \E c \in Callers, n \in HitCounts : SearchOk(c, n)
    \/ \E c \in Callers : AnswerFail(c)
    \/ \E c \in Callers, content \in ChatContents : AnswerOk(c, content)

SpecConstruct == InitConstruct /\ [][NextConstruct]_vars

(* --------------------- the map that builds the points ------------------ *)

\* A call that has just returned from ensureCollection, on a text of n chunks.
InitIds ==
    \E n \in 1..MaxChunks, d \in Dims :
        /\ prompts = [k \in PromptKeys |-> "T0"]
        /\ collectionName = DefaultCollection
        /\ fallbackResponse = DefaultFallback
        /\ colDim = d
        /\ createdBy = 0
        /\ points = <<>>
        /\ clock \in 0..MaxClock
        /\ started = 1
        /\ callNo = [c \in Calls |-> IF c = 1 THEN 1 ELSE 0]
        /\ pc = [c \in Calls |-> IF c = 1 THEN "map" ELSE "idle"]
        /\ nChunks = [c \in Calls |-> IF c = 1 THEN n ELSE 0]
        /\ category = [c \in Calls |-> IF c = 1 THEN "general" ELSE ""]
        /\ embeds = [c \in Calls |->
                        IF c = 1 THEN Embeddings(n, [k \in 1..n |-> d]) ELSE <<>>]
        /\ promiseAll = [c \in Calls |-> NoPromise]
        /\ construction = Constructed(RequiredOnly)
        /\ strings = NoStrings
        /\ pts = [c \in Calls |-> <<>>]
        /\ bi = [c \in Calls |-> 0]
        /\ hits = [c \in Calls |-> -1]
        /\ response = [c \in Calls |-> ""]
        /\ thrown = [c \in Calls |-> NoError]
        /\ raised = [c \in Calls |-> NoError]
        /\ usedPrompts = [c \in Calls |->
                        IF c = 1 THEN [classification |-> "T0", response |-> ""]
                        ELSE NoPrompts]
        /\ startPrompts = [c \in Calls |->
                        IF c = 1 THEN [k \in PromptKeys |-> "T0"] ELSE NoPrompts]
        /\ log = [c \in Calls |->
                        IF c = 1
                        THEN <<"chat.classify">> \o [k \in 1..n |-> "embed"]
                                 \o <<"getCollection">>
                        ELSE <<>>]

\* The map callback runs for the next chunk and reads the clock.
MapChunk(c) ==
    /\ pc[c] = "map"
    /\ LET i == Len(pts[c])
       IN  /\ pts' = [pts EXCEPT ![c] = Append(@, Point(i, embeds[c][i + 1], clock))]
           /\ pc' = [pc EXCEPT ![c] = IF i + 1 = nChunks[c] THEN "mapped" ELSE "map"]
    /\ UNCHANGED <<prompts, config, strings, store, clock, started, callNo, nChunks, category,
                   embeds, bi, hits, response, thrown, raised, usedPrompts,
                   startPrompts, log, promiseAll>>

NextIds ==
    \/ \E c \in Callers : MapChunk(c)
    \/ Tick

\* The map of createVectorStore alone, with the clock advancing at any moment.
SpecIds == InitIds /\ [][NextIds]_vars

(* ------------------- the strings, character by character -------------- *)

\* The pipeline with every variable but strings as Init has it.
InitButStrings ==
    /\ prompts = [k \in PromptKeys |-> "T0"]
    /\ collectionName = DefaultCollection
    /\ fallbackResponse = DefaultFallback
    /\ construction = Constructed(RequiredOnly)
    /\ colDim = 0
    /\ createdBy = 0
    /\ points = <<>>
    /\ clock = 0
    /\ started = 0
    /\ callNo = [c \in Calls |-> 0]
    /\ pc = [c \in Calls |-> "idle"]
    /\ nChunks = [c \in Calls |-> 0]
    /\ category = [c \in Calls |-> ""]
    /\ promiseAll = [c \in Calls |-> NoPromise]
    /\ embeds = [c \in Calls |-> <<>>]
    /\ pts = [c \in Calls |-> <<>>]
    /\ bi = [c \in Calls |-> 0]
    /\ hits = [c \in Calls |-> -1]
    /\ response = [c \in Calls |-> ""]
    /\ thrown = [c \in Calls |-> NoError]
    /\ raised = [c \in Calls |-> NoError]
    /\ usedPrompts = [c \in Calls |-> NoPrompts]
    /\ startPrompts = [c \in Calls |-> NoPrompts]
    /\ log = [c \in Calls |-> <<>>]

\* classifyQuery has received a completion.
InitLabel ==
    /\ InitButStrings
    /\ strings \in {[NoStrings EXCEPT !.at = "completion", !.content = content] :
                        content \in Completions}

\* classifyQuery returns its label.
ReturnLabel ==
    /\ strings.at = "completion"
    /\ strings' = [strings EXCEPT !.at = "label", !.label = LabelText(strings.content)]
    /\ UNCHANGED <<prompts, config, store, clock, callVars>>

NextLabel == ReturnLabel

\* The label classifyQuery makes of every completion content.
SpecLabel == InitLabel /\ [][NextLabel]_vars

\* getBotResponse has received the hits of its search.
InitPromptText ==
    /\ InitButStrings
    /\ strings \in {[NoStrings EXCEPT !.at = "hits", !.template = template,
                                      !.texts = texts, !.query = query] :
                        template \in ResponseTemplates, texts \in SearchResults,
                        query \in Queries}

\* getBotResponse builds the prompt of its chat request.
BuildPrompt ==
    /\ strings.at = "hits"
    /\ strings' = [strings EXCEPT
                       !.at = "prompt",
                       !.prompt = ResponsePrompt(strings.template,
                                                 Context(strings.texts),
                                                 strings.query)]
    /\ UNCHANGED <<prompts, config, store, clock, callVars>>

NextPromptText == BuildPrompt

\* The prompt getBotResponse makes of every template, hits and query.
SpecPromptText == InitPromptText /\ [][NextPromptText]_vars

(* ------------------------------ properties ---------------------------- *)

\* How often event e occurs in sequence s.
Count(s, e) == Cardinality({k \in 1..Len(s) : s[k] = e})

Last(s) == s[Len(s)]

\* The number of batches of n points: ceil(n / batchSize).
ExpectedBatches(n) == (n + batchSize - 1) \div batchSize

\* The store holds chunk k - 1 of call c under the id call c gave it.
Stored(c, k) ==
    /\ pts[c][k].id \in DOMAIN points
    /\ points[pts[c][k].id].call = callNo[c]
    /\ points[pts[c][k].id].chunkIndex = k - 1

\* C1: in every processQuery call the search is sent only after every upsert
\* batch of the call's text has been sent and acknowledged, and the answer
\* request is sent to the chat provider only after that search has returned.
C1_SearchAfterIndexing ==
    \A c \in Calls :
        \A k \in 1..Len(log[c]) :
            /\ log[c][k] = "search" =>
                /\ Count(SubSeq(log[c], 1, k - 1), "upsert.ack")
                       = ExpectedBatches(nChunks[c])
                /\ Count(log[c], "upsert") = ExpectedBatches(nChunks[c])
                /\ \A j \in k..Len(log[c]) : log[c][j] \notin {"upsert", "upsert.ack"}
            /\ log[c][k] = "chat.answer" =>
                \E j \in 1..(k - 1) :
                    /\ log[c][j] = "search.return"
                    /\ \E i \in 1..(j - 1) : log[c][i] = "search"

\* C1 witness: the answer request of a call on the longest text is in flight.
C1_Witness ==
    \E c \in Calls : pc[c] = "answer" /\ nChunks[c] = MaxChunks

\* C2: when a stage of processQuery fails the call is Failed: it sends no
\* further collaborator request (neither in the failing step nor later), it
\* rejects with the error the stage threw, it stays Failed and it returns no
\* result.
C2_FailureAborts ==
    [][\A c \in Calls :
        /\ thrown'[c] # NoError => pc'[c] = "failed"
        /\ (pc'[c] = "failed" /\ callNo'[c] = callNo[c]) =>
            /\ log'[c] = log[c]
            /\ thrown'[c] # NoError
            /\ raised'[c] = thrown'[c]
            /\ response'[c] = ""
        /\ (pc[c] = "failed" /\ callNo'[c] = callNo[c]) =>
            /\ pc'[c] = "failed"
            /\ thrown'[c] = thrown[c]]_vars

\* C2 witness: a call failed in the upsert of its second batch.
C2_Witness ==
    \E c \in Calls :
        /\ pc[c] = "failed"
        /\ raised[c] = "VectorStoreError"
        /\ bi[c] = batchSize
        /\ Last(log[c]) = "upsert"

\* C3: ensureCollection, when the lookup itself does not fail: with no
\* collection it asks the store to create one, and the collection the store
\* then creates has the given size; with a collection of the same size it
\* succeeds and writes nothing to the store and sends no createCollection;
\* with a collection of another size it fails with the size mismatch error.
C3_EnsureCollection ==
    [][\A c \in Calls :
        /\ (/\ pc[c] = "getCollection"
            /\ pc'[c] # "getCollection"
            /\ thrown'[c] # "VectorStoreError") =>
                IF colDim = 0
                THEN /\ pc'[c] = "createCollection"
                     /\ log'[c] = Append(log[c], "createCollection")
                     /\ UNCHANGED store
                ELSE IF colDim = embeds[c][1].len
                THEN /\ pc'[c] = "upsert"
                     /\ UNCHANGED store
                     /\ Count(log'[c], "createCollection") = 0
                ELSE /\ pc'[c] = "failed"
                     /\ thrown'[c] = "DimensionMismatchError"
                     /\ log'[c] = log[c]
                     /\ UNCHANGED store
        /\ (pc[c] = "createCollection" /\ pc'[c] = "upsert") =>
                /\ colDim = 0
                /\ colDim' = embeds[c][1].len]_vars

\* C3 witness: the first call created the collection and the second call
\* failed with the size mismatch.
C3_Witness ==
    \E c \in Calls :
        /\ createdBy = 1
        /\ callNo[c] = 2
        /\ thrown[c] = "DimensionMismatchError"

\* C4: the size of an existing collection never changes, a size mismatch
\* leads to no request to the store, and no upsert request carries a point
\* whose vector length differs from the collection's size.
C4_DimensionKept ==
    [][/\ colDim # 0 => colDim' = colDim
       /\ \A c \in Calls :
            /\ (thrown'[c] = "DimensionMismatchError" /\ callNo'[c] = callNo[c]) =>
                    log'[c] = log[c]
            /\ (pc'[c] = "upsert" /\ (pc[c] # "upsert" \/ bi'[c] # bi[c])) =>
                    \A k \in (bi'[c] + 1)..Min(bi'[c] + batchSize, Len(pts'[c])) :
                        pts'[c][k].vector.len = colDim']_vars

\* C5: batch j + 1 is sent only after batch j was acknowledged; when the
\* upsert of batch j fails, the store holds of this call exactly the chunks of
\* batches 0..j-1, the batch is not sent again and no later batch is sent; and
\* no step removes a stored point.
C5_BatchedPrefix ==
    [][/\ DOMAIN points \subseteq DOMAIN points'
       /\ \A c \in Calls :
            LET acked == Count(log'[c], "upsert.ack")
                sent == Count(log'[c], "upsert")
            IN  /\ \A k \in 1..Len(log'[c]) :
                    log'[c][k] = "upsert" =>
                        Count(SubSeq(log'[c], 1, k - 1), "upsert.ack")
                            = Count(SubSeq(log'[c], 1, k - 1), "upsert")
                /\ (pc'[c] = "failed" /\ Last(log'[c]) = "upsert") =>
                    /\ sent = acked + 1
                    /\ \A k \in 1..Len(pts'[c]) :
                        Stored(c, k)' <=> k <= acked * batchSize]_vars

\* C5 witness: the upsert of the third batch failed.
C5_Witness ==
    \E c \in Calls :
        /\ pc[c] = "failed"
        /\ Last(log[c]) = "upsert"
        /\ Count(log[c], "upsert.ack") = 2

\* C6: when the search returned no result, the call is over with exactly the
\* fallback text as its answer, and the only chat request it sent is the
\* classification.
C6_FallbackOnNoResults ==
    \A c \in Calls :
        hits[c] = 0 =>
            /\ pc[c] = "done"
            /\ response[c] = fallbackResponse
            /\ Count(log[c], "chat.answer") = 0
            /\ Last(log[c]) = "search.return"

\* C6 witness: a search returned nothing though the collection holds points.
C6_Witness ==
    \E c \in Calls : hits[c] = 0 /\ pc[c] = "done" /\ DOMAIN points # {}

\* C7: a call builds both its prompts from the templates in force when it
\* started.
C7_PromptsOfStart ==
    \A c \in Calls :
        /\ usedPrompts[c].classification \in {"", startPrompts[c].classification}
        /\ usedPrompts[c].response \in {"", startPrompts[c].response}

\* C8: updatePrompts sets the templates it is given and keeps the others, and
\* changes neither the collection name, nor the fallback text, nor the store.
C8_UpdateMerges ==
    [][/\ \A np \in PartialPrompts :
            UpdatePrompts(np) =>
                /\ DOMAIN prompts' = PromptKeys
                /\ \A k \in PromptKeys :
                    prompts'[k] = IF k \in DOMAIN np THEN np[k] ELSE prompts[k]
       /\ prompts' # prompts =>
            UNCHANGED <<collectionName, fallbackResponse, colDim, points>>]_vars

\* C8 witness: the classification template was replaced, the response
\* template is still the one the pipeline was built with, and the store holds
\* points.
C8_Witness ==
    /\ prompts.classification = "T1"
    /\ prompts.response = "T0"
    /\ DOMAIN points # {}

\* C9: no call generates a point id that another call generated: an id of
\* the running call is not the id of a point another call stored.
C9_IdsUniqueAcrossCalls ==
    \A c \in Calls :
        \A k \in 1..Len(pts[c]) :
            pts[c][k].id \in DOMAIN points =>
                points[pts[c][k].id].call = callNo[c]

\* C10: the ids of the points one call builds are pairwise distinct, whatever
\* non-decreasing clock readings the map takes.
C10_IdsDistinctWithinCall ==
    \A c \in Calls :
        \A i, j \in 1..Len(pts[c]) :
            i # j => pts[c][i].id # pts[c][j].id

\* C10 witness: all points of the longest text are built and the clock
\* advanced while they were.
C10_Witness ==
    \E c \in Calls :
        /\ pc[c] = "mapped"
        /\ Len(pts[c]) = MaxChunks
        /\ pts[c][MaxChunks].id > pts[c][1].id + MaxChunks - 1
        /\ pts[c][2].id = pts[c][1].id + 1

\* The requests of the indexing and retrieval stages.
IndexingRequests ==
    {"embed", "getCollection", "createCollection", "upsert", "embed.query", "search"}

\* Call c was made with an empty or whitespace-only text.
EmptyCall(c) == callNo[c] > 0 /\ nChunks[c] = 0

\* C11 as stated: a call made with an empty text fails with the empty-input
\* error, and sends no embedding, collection, upsert or search request.
C11_EmptyInputError ==
    \A c \in Calls :
        EmptyCall(c) =>
            /\ pc[c] \in {"classify", "failed"}
            /\ pc[c] = "failed" => raised[c] = "EmptyInputError"
            /\ \A k \in 1..Len(log[c]) : log[c][k] \notin IndexingRequests

\* C11 as amended: a call made with an empty text fails, with the empty-input
\* error when its classification request was answered and with the chat
\* provider's error when that request failed, and it sends no embedding,
\* collection, upsert or search request.
C11_EmptyInputFails ==
    \A c \in Calls :
        EmptyCall(c) =>
            /\ pc[c] \in {"classify", "failed"}
            /\ pc[c] = "failed" =>
                    raised[c] = IF category[c] # "" THEN "EmptyInputError"
                                ELSE "ChatProviderError"
            /\ log[c] = <<"chat.classify">>

\* C11 witness: a call made with an empty text failed with the empty-input
\* error.
C11_Witness ==
    \E c \in Calls :
        EmptyCall(c) /\ pc[c] = "failed" /\ raised[c] = "EmptyInputError"

\* The requests a call sends before its embeddings are awaited.
EmbeddingRequests == {"chat.classify", "embed"}

\* The store holds no point written by the call numbered n.
NoPointOf(stored, n) == \A id \in DOMAIN stored : stored[id].call # n

\* C12: when the embedding of a chunk fails, in whatever order the embedding
\* requests complete, the call fails with the embedding error and the store
\* stays as it was before the call: the call made no collection, no point of
\* the call is stored, the call sent no request to the store, and no step
\* taken after the failure changes the store.
C12_EmbeddingFailureAborts ==
    [][\A c \in Calls :
        promiseAll'[c].rejected # {} =>
            /\ pc'[c] = "failed"
            /\ raised'[c] = "EmbeddingError"
            /\ createdBy' # callNo'[c]
            /\ NoPointOf(points', callNo'[c])
            /\ \A k \in 1..Len(log'[c]) : log'[c][k] \in EmbeddingRequests
            /\ callNo'[c] = callNo[c] => store' = store]_vars

\* C12 witness: over a store that holds points, the embedding of a chunk
\* failed after the embedding of a later chunk had succeeded.
C12_Witness ==
    \E c \in Calls :
        /\ promiseAll[c].rejected # {}
        /\ Len(promiseAll[c].order) > 1
        /\ promiseAll[c].order[1] \notin promiseAll[c].rejected
        /\ promiseAll[c].order[1] > promiseAll[c].order[2]
        /\ promiseAll[c].order[2] \in promiseAll[c].rejected
        /\ DOMAIN points # {}
        /\ pc[c] = "failed"

\* C13: in whatever order the embedding requests complete, the point built
\* for chunk i carries the vector of chunk i, the text of chunk i and
\* chunkIndex i.
C13_PointOfChunk ==
    \A c \in Calls :
        \A k \in 1..Len(pts[c]) :
            /\ pts[c][k].vector.of = k - 1
            /\ pts[c][k].text = k - 1
            /\ pts[c][k].chunkIndex = k - 1

\* C13 witness: the points of the longest text are built from embeddings
\* that completed from the last chunk to the first.
C13_Witness ==
    \E c \in Calls :
        /\ nChunks[c] = MaxEmbedChunks
        /\ Len(pts[c]) = MaxEmbedChunks
        /\ \A j \in 1..MaxEmbedChunks :
               promiseAll[c].order[j] = MaxEmbedChunks - j

\* C14: the constructor called with a configuration in which one of the four
\* required fields is missing or empty fails with the configuration error
\* before it makes a client, and there is no instance: no processQuery call
\* is ever made and no request is ever sent.
C14_ConfigurationError ==
    (/\ \E f \in RequiredFields : construction.config[f] \in {Absent, ""}
     /\ construction.at # "new") =>
        /\ construction.at = "failed"
        /\ construction.error = "ConfigurationError"
        /\ construction.clients = <<>>
        /\ started = 0
        /\ \A c \in Calls : pc[c] = "idle" /\ log[c] = <<>>

\* C14 witness: the constructor failed on a configuration whose only fault
\* is an empty chat credential.
C14_Witness ==
    /\ construction.at = "failed"
    /\ construction.config.groqApiKey = ""
    /\ \A f \in RequiredFields \ {"groqApiKey"} : construction.config[f] = "key"

\* C15: every result processQuery returns has a non-empty answer and a
\* non-empty category: the answer is the configured fallback when the chat
\* provider's completion has no content, and the category, which the call
\* keeps until it returns, is "general" when the classification completion
\* has no content.
C15_BothFieldsPopulated ==
    [][\A c \in Calls :
        /\ (pc'[c] = "done" /\ pc[c] # "done") =>
            /\ response'[c] # ""
            /\ category'[c] # ""
        /\ AnswerOk(c, "") => response'[c] = fallbackResponse
        /\ ClassifyOk(c, "") => category'[c] = "general"
        /\ pc[c] \notin {"idle", "classify", "done", "failed"} =>
               category'[c] = category[c]]_vars

\* C15 witness: a call made on an instance configured with an empty fallback
\* returned after completions without content to both of its chat requests.
C15_Witness ==
    \E c \in Calls :
        /\ pc[c] = "done"
        /\ hits[c] > 0
        /\ construction.config.fallbackResponse = ""
        /\ response[c] = DefaultFallback
        /\ category[c] = "general"

\* A blank character.
Blank(ch) == ch \in {" ", "\n"}

\* s.trim(): s without the blanks at its start and at its end.
RECURSIVE Trim(_)
Trim(s) ==
    IF s = <<>> THEN s
    ELSE IF Blank(Head(s)) THEN Trim(Tail(s))
    ELSE IF Blank(s[Len(s)]) THEN Trim(SubSeq(s, 1, Len(s) - 1))
    ELSE s

\* C16: the label classifyQuery returns for a completion with usable content
\* is that content trimmed: it has no blank at its start or at its end.
C16_LabelTrimmed ==
    (strings.at = "label" /\ Trim(strings.content) # <<>>) =>
        /\ strings.label = Trim(strings.content)
        /\ ~Blank(Head(strings.label))
        /\ ~Blank(Last(strings.label))

\* C17: when the lookup of ensureCollection fails with an error other than
\* "not found", the call fails with that error, it sends no createCollection
\* request and no upsert, and no point of the call is in the store.
C17_LookupErrorPropagates ==
    [][\A c \in Calls :
        /\ \A status \in ErrorStatuses :
               GetCollectionError(c, status) =>
                   /\ pc'[c] = "failed"
                   /\ thrown'[c] = "VectorStoreError"
                   /\ raised'[c] = thrown'[c]
                   /\ log'[c] = log[c]
                   /\ store' = store
        /\ (/\ pc'[c] = "failed"
            /\ thrown'[c] = "VectorStoreError"
            /\ Last(log'[c]) = "getCollection") =>
               /\ Count(log'[c], "createCollection") = 0
               /\ Count(log'[c], "upsert") = 0
               /\ createdBy' # callNo'[c]
               /\ NoPointOf(points', callNo'[c])]_vars

\* C17 witness: the lookup of a call failed with such an error while the
\* store had no collection.
C17_Witness ==
    \E c \in Calls :
        /\ pc[c] = "failed"
        /\ thrown[c] = "VectorStoreError"
        /\ Last(log[c]) = "getCollection"
        /\ colDim = 0

\* s contains t: t is s from some place on.
Contains(s, t) ==
    \E k \in 1..(Len(s) - Len(t) + 1) : SubSeq(s, k, k + Len(t) - 1) = t

\* The template with each placeholder replaced by its text, the texts taken
\* as they are.
RECURSIVE Substituted(_, _, _)
Substituted(template, context, query) ==
    IF template = <<>> THEN <<>>
    ELSE (CASE Head(template) = "{context}" -> context
            [] Head(template) = "{query}" -> query
            [] OTHER -> <<Head(template)>>)
         \o Substituted(Tail(template), context, query)

\* C18: for hits of a search and a response template with each placeholder
\* once, the prompt of the chat request is the template with {context}
\* replaced by the texts of the hits joined by single spaces in rank order and
\* {query} replaced by the query: it contains the whole context and the
\* query, whatever their characters.
C18_PromptSubstituted ==
    strings.at = "prompt" =>
        /\ strings.prompt = Substituted(strings.template, Join(strings.texts),
                                        strings.query)
        /\ Contains(strings.prompt, Join(strings.texts))
        /\ Contains(strings.prompt, strings.query)

\* C19: of two calls that run at the same time with vectors of one size
\* while the store has no collection, neither fails because of the other:
\* no call has its createCollection request refused because the other call
\* has made the collection, of that size, in the meantime.
C19_ProvisioningIdempotent ==
    \A c \in Calls :
        (/\ pc[c] = "failed"
         /\ Last(log[c]) = "createCollection"
         /\ colDim = VectorSize(c)
         /\ createdBy \notin {0, callNo[c]}) =>
            thrown[c] # "ConflictError"

\* C20: the upsert requests of a call on n chunks: the r-th request carries
\* the points of the chunks from (r - 1) * 10 on, in chunk order, 10 of them
\* or, in the last request, those that remain, at least one; and when the
\* indexing has succeeded, ceil(n / 10) requests have been sent. So the
\* requests put together are the points of chunks 0..n-1, each once.
C20_UpsertRequests ==
    \A c \in Calls :
        LET sent == Count(log[c], "upsert")
            first == (sent - 1) * batchSize
        IN  /\ pc[c] = "upsert" =>
                /\ sent \in 1..ExpectedBatches(nChunks[c])
                /\ Len(Request(c)) = Min(batchSize, nChunks[c] - first)
                /\ Len(Request(c)) \in 1..batchSize
                /\ sent < ExpectedBatches(nChunks[c]) => Len(Request(c)) = batchSize
                /\ \A j \in 1..Len(Request(c)) :
                       /\ Request(c)[j] = pts[c][first + j]
                       /\ Request(c)[j].chunkIndex = first + j - 1
            /\ Count(log[c], "embed.query") > 0 =>
                /\ sent = ExpectedBatches(nChunks[c])
                /\ Count(log[c], "upsert.ack") = sent

\* C20 witness: the indexing of the longest text has succeeded, its last
\* request being shorter than the others.
C20_Witness ==
    \E c \in Calls :
        /\ nChunks[c] = MaxChunks
        /\ Last(log[c]) = "embed.query"
        /\ MaxChunks % batchSize # 0

====
